---- MODULE Spec2Model ----
(***************************************************************************)
(* Model of platformio_api/libbuild.py: publishing a library's examples    *)
(* and a generated Travis-CI config into the branch library-<id> of the    *)
(* libbuild repository (think_of_name_later).                              *)
(*                                                                         *)
(* Text is modelled as a sequence of lines, a line as a sequence of string *)
(* tokens; a path as the sequence of its components; a git tree and a      *)
(* directory's files as a function from paths to texts.                    *)
(***************************************************************************)
EXTENDS Integers, Sequences, FiniteSets, TLC

MaxCalls == 2

Procs == {1, 2}
LibIds == {1, 2}
SeqLibIds == {1}
Versions == {[name |-> "1.0"], [name |-> "1.1"]}
PlatformLists == {<<"atmelavr">>, <<"teensy", "atmelavr">>,
                  <<"espressif", "teensy">>}
ConcVersions == {[name |-> "1.0"]}
ConcPlatformLists == {<<"atmelavr">>}
ExampleSets == {{"old.ino"}, {"new.ino"}, {"old.ino", "new.ino"}}

VERSION_FILENAME == <<"_version.json">>
TRAVIS_FILENAME == <<".travis.yml">>
README == <<"README.md">>
examples_directory == <<"examples">>
HOME == 0

COMMIT_MESSAGE(library_version) ==
    <<"Update library to version ", library_version>>

BOARDS ==
    [atmelavr |-> <<"uno", "leonardo", "megaatmega2560">>,
     teensy |-> <<"teensy20", "teensy31">>]

\* the registry platformio.util.get_boards() answers from, when it answers
REGISTRY_BOARDS ==
    <<[board |-> "uno", platform |-> "atmelavr"],
      [board |-> "diecimilaatmega328", platform |-> "atmelavr"],
      [board |-> "teensy31", platform |-> "teensy"],
      [board |-> "esp01", platform |-> "espressif"]>>

EmptyTree == [x \in {} |-> <<>>]
NoCommit == [tree |-> EmptyTree, n |-> 0, message |-> <<>>]
MASTER == <<"master", 0>>

Str(lib_id) == ToString(lib_id)

Range(s) == {s[i] : i \in DOMAIN s}

\* os.path.join(directory, filename)
join(directory, filename) == directory \o <<filename>>

\* a path as it is printed
PathStr(path) ==
    IF Len(path) = 2 THEN <<path[1], "/", path[2]>> ELSE path

\* "library-%s" % lib_id
BranchName(lib_id) == <<"library-", lib_id>>

\* json.dump(version, f, indent=2)
dump(version) == <<<<"{">>, <<"  \"name\": ", version.name>>, <<"}">>>>

\* json.load(f)
load(text) == [name |-> text[2][2]]

\* the content of the example file `name` of library lib_id
Sketch(lib_id, name) == <<<<"// example ", name, " of library ", Str(lib_id)>>>>

\* the directory get_libexample_dir(lib_id) as a directory of files
ExampleDir(names, lib_id) ==
    [path \in {<<n>> : n \in names} |-> Sketch(lib_id, path[1])]

\* all orders os.listdir may answer in
Listings(names) ==
    {s \in UNION {[1..k -> names] : k \in {Cardinality(names)}} :
        Range(s) = names}

\* BOARDS.get(p, [])
BoardsGet(p) == IF p \in DOMAIN BOARDS THEN BOARDS[p] ELSE <<>>

RECURSIVE get_boards_by_platforms_rev(_)
get_boards_by_platforms_rev(platforms) ==
    IF platforms = <<>> THEN <<>>
    ELSE get_boards_by_platforms_rev(Tail(platforms)) \o BoardsGet(Head(platforms))

RECURSIVE get_boards_by_platforms(_)
get_boards_by_platforms(platforms) ==
    IF platforms = <<>> THEN <<>>
    ELSE BoardsGet(Head(platforms)) \o get_boards_by_platforms(Tail(platforms))

RECURSIVE FilterBoards(_, _)
FilterBoards(items, platforms) ==
    IF items = <<>> THEN <<>>
    ELSE (IF Head(items).platform \in Range(platforms)
          THEN <<Head(items).board>> ELSE <<>>)
         \o FilterBoards(Tail(items), platforms)

\* get_all_boards_by_platforms, over what get_boards() answered
get_all_boards_by_platforms(items, platforms) == FilterBoards(items, platforms)

\* sep.join(parts), each part a sequence of tokens
RECURSIVE JoinTokens(_, _)
JoinTokens(sep, parts) ==
    IF parts = <<>> THEN <<>>
    ELSE IF Len(parts) = 1 THEN parts[1]
    ELSE parts[1] \o <<sep>> \o JoinTokens(sep, Tail(parts))

\* " ".join("--board=" + board_type for board_type in board_names)
BoardFlags(board_names) ==
    JoinTokens(" ", [i \in DOMAIN board_names |-> <<"--board=", board_names[i]>>])

\* "\n".join("    - PLATFORMIO_CI_SRC={}".format(path) for path in example_files)
EnvLines(example_files) ==
    IF example_files = <<>> THEN <<<<>>>>
    ELSE [i \in DOMAIN example_files |->
            <<"    - PLATFORMIO_CI_SRC=">> \o PathStr(example_files[i])]

TEMPLATE_HEAD ==
    <<<<"language: python">>, <<"python:">>, <<"    - \"2.7\"">>, <<>>,
      <<"sudo: false">>, <<>>,
      <<"# Cache PlatformIO packages using Travis CI container-based infrastructure">>,
      <<"cache:">>, <<"    directories:">>, <<"        - \"~/.platformio\"">>,
      <<>>, <<"env:">>>>

TEMPLATE_INSTALL ==
    <<<<>>, <<"install:">>, <<"    - pip install -U platformio">>, <<>>,
      <<"script:">>>>

\* TRAVIS_CONFIG_TEMPLATE.format(envs=, boards=, library_version=, library_id=)
TravisConfig(envs, boards, library_version, library_id) ==
    TEMPLATE_HEAD \o envs \o TEMPLATE_INSTALL
    \o <<<<"    - platformio --force lib install --version=", library_version,
           " ", Str(library_id)>>,
         <<"    - platformio --force ci ">> \o boards>>


VARIABLES remote, fs, cwd, libExamples, registry, nextTmp, calls, frame

vars == <<remote, fs, cwd, libExamples, registry, nextTmp, calls, frame>>

EmptyDir == [files |-> EmptyTree, dirs |-> {}]

\* the working tree a checkout of `tree` leaves in a directory
Checkout(tree) ==
    [files |-> tree,
     dirs |-> {<<q[1]>> : q \in {r \in DOMAIN tree : Len(r) = 2}}]

\* open(path, "w").write(text) in directory d
WriteFile(fsys, d, path, text) ==
    [fsys EXCEPT ![d].files =
        [q \in DOMAIN @ \cup {path} |-> IF q = path THEN text ELSE @[q]]]

\* shutil.rmtree(d)
rmtree(fsys, d) == [x \in DOMAIN fsys \ {d} |-> fsys[x]]

\* if exists("examples"): rmtree("examples"); mkdir("examples"), in directory d
ClearedExamples(fsys, d) ==
    [fsys EXCEPT ![d] =
        [files |-> [q \in {r \in DOMAIN @.files : r[1] # examples_directory[1]}
                      |-> @.files[q]],
         dirs |-> @.dirs \cup {examples_directory}]]

\* the copyfile loop: every listed file of the saved directory into d/examples
CopiedExamples(fsys, d, saved, listing) ==
    [fsys EXCEPT ![d].files =
        [q \in DOMAIN @ \cup {join(examples_directory, listing[i]) : i \in DOMAIN listing}
            |-> IF Len(q) = 2 /\ q[1] = examples_directory[1] /\ <<q[2]>> \in DOMAIN saved
                   /\ q[2] \in Range(listing)
                THEN saved[<<q[2]>>] ELSE @[q]]]

BranchTokens(branch) ==
    IF branch = MASTER THEN <<branch[1]>> ELSE <<branch[1], Str(branch[2])>>

\* "fatal: Remote branch %s not found in upstream origin" % branch
expected_message(branch) ==
    <<"fatal: Remote branch ">> \o BranchTokens(branch)
    \o <<" not found in upstream origin">>

\* what git writes to stderr, split at "\n"
NotFoundStderr(branch) ==
    <<<<"Cloning into the directory...">>, expected_message(branch), <<>>>>
OtherStderrs ==
    {<<<<"Cloning into the directory...">>,
       <<"fatal: unable to access the remote">>, <<>>>>,
     <<<<"fatal: unable to access the remote">>>>,
     <<<<>>>>}

\* what Repo.clone_from can do for `branch`, given the remote
CloneOutcomes(rem, branch) ==
    (IF branch \in DOMAIN rem
     THEN {[ok |-> TRUE, stderr |-> <<<<>>>>]}
     ELSE {[ok |-> FALSE, stderr |-> NotFoundStderr(branch)]})
    \cup {[ok |-> FALSE, stderr |-> s] : s \in OtherStderrs}

shallow_clone_branch_any(out, branch) ==
    IF out.ok THEN "repo" ELSE "RemoteBranchNotFound"

\* shallow_clone_branch: what it returns or raises on the outcome `out`
shallow_clone_branch(out, branch) ==
    IF out.ok THEN "repo"
    ELSE IF out.stderr # <<<<>>>>
         THEN IF Len(out.stderr) < 2 THEN "IndexError"
              ELSE IF out.stderr[Len(out.stderr) - 1] = expected_message(branch)
                   THEN "RemoteBranchNotFound"
                   ELSE "GitCommandError"
         ELSE "GitCommandError"

ShouldSkip_never(version, staged_version, force) == FALSE

ShouldSkip_unforced(version, staged_version, force) == version = staged_version

\* version == staged_version and not kwargs.get("force")
ShouldSkip(version, staged_version, force) ==
    version = staged_version /\ ~force

ResolveBoards_registry(platforms) ==
    IF registry.available
    THEN get_all_boards_by_platforms(registry.boards, platforms)
    ELSE get_boards_by_platforms(platforms)

\* the board list think_of_name_later renders
ResolveBoards(platforms) == get_boards_by_platforms(platforms)

IdleFrame ==
    [pc |-> "idle", lib_id |-> 0, version |-> [name |-> ""], platforms |-> <<>>,
     force |-> FALSE, original_working_directory |-> HOME,
     branch_name |-> MASTER, repo_directory |-> HOME,
     repo |-> [working_tree_dir |-> HOME, index |-> EmptyTree, head |-> NoCommit],
     example_files |-> <<>>, exc |-> "none", escaped |-> "none",
     logged |-> FALSE, done |-> {}, fallback |-> FALSE, skipped |-> FALSE,
     written |-> {}, remote0 |-> remote,
     prev |-> [lib_id |-> 0, version |-> [name |-> ""], pushed |-> FALSE]]

Init ==
    /\ remote = (MASTER :> [tree |-> (README :> <<<<"libbuild">>>>), n |-> 1,
                            message |-> <<"Initial commit">>])
    /\ fs = (HOME :> EmptyDir)
    /\ cwd = HOME
    /\ libExamples = [l \in LibIds |-> IF l = 1 THEN {"old.ino"}
                                       ELSE {"old.ino", "new.ino"}]
    /\ registry \in {[available |-> FALSE, boards |-> <<>>],
                     [available |-> TRUE, boards |-> REGISTRY_BOARDS]}
    /\ nextTmp = 1
    /\ calls = 0
    /\ frame = [p \in Procs |->
                  [IdleFrame EXCEPT !.remote0 = remote]]

Finished(f) == f.pc \in {"returned", "raised"}

\* the caller can call (again): an exception that left the function ends the
\* caller (lines 162-169 catch nothing)
Resting(f) == f.pc \in {"idle", "returned"}

Raise_escape(f, step) == [f EXCEPT !.pc = "raised", !.escaped = step]

\* an exception raised inside the try block: control goes to `except Exception`
Raise(f, step) == [f EXCEPT !.pc = "except", !.exc = step]

\* an exception raised outside the try block, or inside `finally`
Escape(f, step) == [f EXCEPT !.pc = "raised", !.escaped = step]

Advance(f, step, next) == [f EXCEPT !.pc = next, !.done = @ \cup {step}]


\* lines 89-92: getcwd, the branch name, mkdtemp
Invoke(p, lib_id, version, platforms, force) ==
    LET f == frame[p]
        g == [IdleFrame EXCEPT
                !.lib_id = lib_id, !.version = version, !.platforms = platforms,
                !.force = force, !.branch_name = BranchName(lib_id),
                !.remote0 = remote,
                !.prev = IF f.pc = "idle" THEN IdleFrame.prev
                         ELSE [lib_id |-> f.lib_id, version |-> f.version,
                               pushed |-> "push" \in f.done]]
    IN /\ UNCHANGED <<remote, cwd, libExamples, registry>>
       /\ calls' = calls + 1
       /\ IF cwd \notin DOMAIN fs
          THEN /\ frame' = [frame EXCEPT ![p] = Escape(g, "getcwd")]
               /\ UNCHANGED <<fs, nextTmp>>
          ELSE \E ok \in BOOLEAN :
                 IF ok
                 THEN /\ fs' = [d \in DOMAIN fs \cup {nextTmp} |->
                                  IF d = nextTmp THEN EmptyDir ELSE fs[d]]
                      /\ nextTmp' = nextTmp + 1
                      /\ frame' = [frame EXCEPT ![p] =
                            [g EXCEPT !.pc = "clone",
                                      !.original_working_directory = cwd,
                                      !.repo_directory = nextTmp]]
                 ELSE /\ frame' = [frame EXCEPT ![p] = Escape(g, "mkdtemp")]
                      /\ UNCHANGED <<fs, nextTmp>>

\* one call after another, by one caller
Call(p, lib_id, version, platforms, force) ==
    /\ calls < MaxCalls
    /\ Resting(frame[p])
    /\ Invoke(p, lib_id, version, platforms, force)

\* a call while a call for another library may be running
CallConc(p, lib_id, version, platforms, force) ==
    /\ frame[p].pc = "idle"
    /\ \A q \in Procs \ {p} : frame[q].lib_id # lib_id
    /\ Invoke(p, lib_id, version, platforms, force)

\* another subsystem replaces the saved examples of a library between calls
ChangeExamples(lib_id, names) ==
    /\ calls < MaxCalls
    /\ \A p \in Procs : Resting(frame[p])
    /\ libExamples[lib_id] # names
    /\ libExamples' = [libExamples EXCEPT ![lib_id] = names]
    /\ UNCHANGED <<remote, fs, cwd, registry, nextTmp, calls, frame>>

\* the repository object of a fresh shallow clone of `branch` into d
Cloned(d, branch) ==
    [working_tree_dir |-> d, index |-> remote[branch].tree, head |-> remote[branch]]

\* lines 94-97: clone the library's branch
Clone(p) ==
    LET f == frame[p] IN
    /\ f.pc = "clone"
    /\ UNCHANGED <<remote, cwd, libExamples, registry, nextTmp, calls>>
    /\ \E out \in CloneOutcomes(remote, f.branch_name) :
         LET res == shallow_clone_branch(out, f.branch_name) IN
         IF res = "repo"
         THEN /\ fs' = [fs EXCEPT ![f.repo_directory] =
                          Checkout(remote[f.branch_name].tree)]
              /\ frame' = [frame EXCEPT ![p] =
                    [Advance(f, "clone", "chdir") EXCEPT
                        !.repo = Cloned(f.repo_directory, f.branch_name)]]
         ELSE /\ UNCHANGED fs
              /\ frame' = [frame EXCEPT ![p] =
                    IF res = "RemoteBranchNotFound"
                    THEN [f EXCEPT !.pc = "clone_master", !.fallback = TRUE]
                    ELSE Raise(f, "clone")]

\* lines 98-101: the branch was not found; clone master
CloneMaster(p) ==
    LET f == frame[p] IN
    /\ f.pc = "clone_master"
    /\ UNCHANGED <<remote, cwd, libExamples, registry, nextTmp, calls>>
    /\ \E out \in CloneOutcomes(remote, MASTER) :
         LET res == shallow_clone_branch(out, MASTER) IN
         IF res = "repo"
         THEN /\ fs' = [fs EXCEPT ![f.repo_directory] =
                          Checkout(remote[MASTER].tree)]
              /\ frame' = [frame EXCEPT ![p] =
                    [Advance(f, "clone", "checkout_orphan") EXCEPT
                        !.repo = Cloned(f.repo_directory, MASTER)]]
         ELSE /\ UNCHANGED fs
              /\ frame' = [frame EXCEPT ![p] = Raise(f, "clone")]

\* git checkout --orphan: HEAD names an unborn branch; the index and the
\* working tree stay as checked out
OrphanRepo(repo) == [repo EXCEPT !.head = NoCommit]

\* line 102: repo.git.checkout(branch_name, orphan=True)
CheckoutOrphan(p) ==
    LET f == frame[p] IN
    /\ f.pc = "checkout_orphan"
    /\ UNCHANGED <<remote, fs, cwd, libExamples, registry, nextTmp, calls>>
    /\ \E ok \in BOOLEAN :
         frame' = [frame EXCEPT ![p] =
            IF ok THEN [Advance(f, "checkout_orphan", "chdir") EXCEPT
                           !.repo = OrphanRepo(f.repo)]
            ELSE Raise(f, "checkout_orphan")]

\* line 107: chdir(repo.working_tree_dir)
Chdir(p) ==
    LET f == frame[p] IN
    /\ f.pc = "chdir"
    /\ UNCHANGED <<remote, fs, libExamples, registry, nextTmp, calls>>
    /\ \E ok \in BOOLEAN :
         IF ok
         THEN /\ cwd' = f.repo.working_tree_dir
              /\ frame' = [frame EXCEPT ![p] = Advance(f, "chdir", "version_check")]
         ELSE /\ UNCHANGED cwd
              /\ frame' = [frame EXCEPT ![p] = Raise(f, "chdir")]

AfterReturn_direct == "returned"

\* line 117: `return` inside try leaves through the finally block
AfterReturn == "finally_chdir"

\* lines 110-117: skip when the staged version is the requested one
VersionCheck(p) ==
    LET f == frame[p]
        files == fs[f.repo_directory].files
    IN
    /\ f.pc = "version_check"
    /\ UNCHANGED <<remote, fs, cwd, libExamples, registry, nextTmp, calls>>
    /\ \E ok \in BOOLEAN :
         frame' = [frame EXCEPT ![p] =
            IF ~ok THEN Raise(f, "version_check")
            ELSE IF VERSION_FILENAME \in DOMAIN files
                    /\ ShouldSkip(f.version, load(files[VERSION_FILENAME]), f.force)
                 THEN [Advance(f, "version_check", AfterReturn) EXCEPT
                          !.skipped = TRUE]
                 ELSE Advance(f, "version_check", "write_version")]

\* lines 118-119: dump(version) into repo_directory/_version.json
WriteVersion(p) ==
    LET f == frame[p] IN
    /\ f.pc = "write_version"
    /\ UNCHANGED <<remote, cwd, libExamples, registry, nextTmp, calls>>
    /\ \E ok \in BOOLEAN :
         IF ok
         THEN /\ fs' = WriteFile(fs, f.repo_directory, VERSION_FILENAME,
                                 dump(f.version))
              /\ frame' = [frame EXCEPT ![p] =
                    [Advance(f, "write_version", "clear_examples") EXCEPT
                        !.written = @ \cup {f.repo_directory}]]
         ELSE /\ UNCHANGED fs
              /\ frame' = [frame EXCEPT ![p] = Raise(f, "write_version")]

\* lines 121-126: clear ./examples, relative to the working directory
ClearExamples(p) ==
    LET f == frame[p] IN
    /\ f.pc = "clear_examples"
    /\ UNCHANGED <<remote, cwd, libExamples, registry, nextTmp, calls>>
    /\ \E ok \in BOOLEAN :
         IF ok /\ cwd \in DOMAIN fs
         THEN /\ fs' = ClearedExamples(fs, cwd)
              /\ frame' = [frame EXCEPT ![p] =
                    [Advance(f, "clear_examples", "copy_examples") EXCEPT
                        !.written = @ \cup {cwd}]]
         ELSE /\ UNCHANGED fs
              /\ frame' = [frame EXCEPT ![p] = Raise(f, "clear_examples")]

\* lines 128-135: copy the saved examples into ./examples
CopyExamples(p) ==
    LET f == frame[p]
        saved == ExampleDir(libExamples[f.lib_id], f.lib_id)
    IN
    /\ f.pc = "copy_examples"
    /\ UNCHANGED <<remote, cwd, libExamples, registry, nextTmp, calls>>
    /\ \E ok \in BOOLEAN : \E listing \in Listings(libExamples[f.lib_id]) :
         IF /\ ok
            /\ cwd \in DOMAIN fs
            /\ examples_directory \in fs[cwd].dirs
         THEN /\ fs' = CopiedExamples(fs, cwd, saved, listing)
              /\ frame' = [frame EXCEPT ![p] =
                    [Advance(f, "copy_examples", "write_travis") EXCEPT
                        !.example_files =
                            [i \in DOMAIN listing |->
                                join(examples_directory, listing[i])],
                        !.written = @ \cup {cwd}]]
         ELSE /\ UNCHANGED fs
              /\ frame' = [frame EXCEPT ![p] = Raise(f, "copy_examples")]

\* lines 137-146: render the Travis-CI config into ./.travis.yml
WriteTravis(p) ==
    LET f == frame[p]
        boards == BoardFlags(ResolveBoards(f.platforms))
        envs == EnvLines(f.example_files)
    IN
    /\ f.pc = "write_travis"
    /\ UNCHANGED <<remote, cwd, libExamples, registry, nextTmp, calls>>
    /\ \E ok \in BOOLEAN :
         IF ok /\ cwd \in DOMAIN fs
         THEN /\ fs' = WriteFile(fs, cwd, TRAVIS_FILENAME,
                           TravisConfig(envs, boards, f.version.name, f.lib_id))
              /\ frame' = [frame EXCEPT ![p] =
                    [Advance(f, "write_travis", "index_add") EXCEPT
                        !.written = @ \cup {cwd}]]
         ELSE /\ UNCHANGED fs
              /\ frame' = [frame EXCEPT ![p] = Raise(f, "write_travis")]

\* the paths handed to repo.index.add
AddedPaths(f) == Range(f.example_files) \cup {VERSION_FILENAME, TRAVIS_FILENAME}

\* IndexFile.add(paths): the entries of `paths` are replaced by the files of
\* the working tree, every other entry of the index stays
IndexAfterAdd(index, files, paths) ==
    [q \in DOMAIN index \cup paths |-> IF q \in paths THEN files[q] ELSE index[q]]

\* line 149: repo.index.add(example_files + [VERSION_FILENAME, TRAVIS_FILENAME])
IndexAdd(p) ==
    LET f == frame[p]
        files == fs[f.repo.working_tree_dir].files
    IN
    /\ f.pc = "index_add"
    /\ UNCHANGED <<remote, fs, cwd, libExamples, registry, nextTmp, calls>>
    /\ \E ok \in BOOLEAN :
         frame' = [frame EXCEPT ![p] =
            IF ok /\ AddedPaths(f) \subseteq DOMAIN files
            THEN [Advance(f, "index_add", "commit") EXCEPT
                     !.repo.index = IndexAfterAdd(@, files, AddedPaths(f))]
            ELSE Raise(f, "index_add")]

\* lines 150-151: repo.index.commit(COMMIT_MESSAGE.format(...))
Commit(p) ==
    LET f == frame[p] IN
    /\ f.pc = "commit"
    /\ UNCHANGED <<remote, fs, cwd, libExamples, registry, nextTmp, calls>>
    /\ \E ok \in BOOLEAN :
         frame' = [frame EXCEPT ![p] =
            IF ok
            THEN [Advance(f, "commit", "push") EXCEPT
                     !.repo.head = [tree |-> f.repo.index, n |-> @.n + 1,
                                    message |-> COMMIT_MESSAGE(f.version.name)]]
            ELSE Raise(f, "commit")]

\* line 152: repo.remote("origin").push(branch_name, set_upstream=True)
Push(p) ==
    LET f == frame[p] IN
    /\ f.pc = "push"
    /\ UNCHANGED <<fs, cwd, libExamples, registry, nextTmp, calls>>
    /\ \E ok \in BOOLEAN :
         IF ok
         THEN /\ remote' = [b \in DOMAIN remote \cup {f.branch_name} |->
                              IF b = f.branch_name THEN f.repo.head ELSE remote[b]]
              /\ frame' = [frame EXCEPT ![p] = Advance(f, "push", "finally_chdir")]
         ELSE /\ UNCHANGED remote
              /\ frame' = [frame EXCEPT ![p] = Raise(f, "push")]

\* lines 154-155: except Exception: logger.exception(exc)
Except(p) ==
    LET f == frame[p] IN
    /\ f.pc = "except"
    /\ UNCHANGED <<remote, fs, cwd, libExamples, registry, nextTmp, calls>>
    /\ frame' = [frame EXCEPT ![p] = [f EXCEPT !.pc = "finally_chdir",
                                               !.logged = TRUE]]

\* line 158: chdir(original_working_directory)
FinallyChdir(p) ==
    LET f == frame[p] IN
    /\ f.pc = "finally_chdir"
    /\ UNCHANGED <<remote, fs, libExamples, registry, nextTmp, calls>>
    /\ \E ok \in BOOLEAN :
         IF ok /\ f.original_working_directory \in DOMAIN fs
         THEN /\ cwd' = f.original_working_directory
              /\ frame' = [frame EXCEPT ![p] = [f EXCEPT !.pc = "finally_rmtree"]]
         ELSE /\ UNCHANGED cwd
              /\ frame' = [frame EXCEPT ![p] = Escape(f, "finally_chdir")]

\* line 159: rmtree(repo_directory)
FinallyRmtree(p) ==
    LET f == frame[p] IN
    /\ f.pc = "finally_rmtree"
    /\ UNCHANGED <<remote, cwd, libExamples, registry, nextTmp, calls>>
    /\ \E ok \in BOOLEAN :
         IF ok
         THEN /\ fs' = rmtree(fs, f.repo_directory)
              /\ frame' = [frame EXCEPT ![p] = [f EXCEPT !.pc = "returned"]]
         ELSE /\ UNCHANGED fs
              /\ frame' = [frame EXCEPT ![p] = Escape(f, "finally_rmtree")]

Step(p) ==
    \/ Clone(p) \/ CloneMaster(p) \/ CheckoutOrphan(p) \/ Chdir(p)
    \/ VersionCheck(p) \/ WriteVersion(p) \/ ClearExamples(p) \/ CopyExamples(p)
    \/ WriteTravis(p) \/ IndexAdd(p) \/ Commit(p) \/ Push(p)
    \/ Except(p) \/ FinallyChdir(p) \/ FinallyRmtree(p)

SeqProcs == {1}

Next ==
    \/ \E lib_id \in SeqLibIds, version \in Versions,
          platforms \in PlatformLists, force \in BOOLEAN :
            Call(1, lib_id, version, platforms, force)
    \/ \E names \in ExampleSets : ChangeExamples(1, names)
    \/ \E p \in SeqProcs : Step(p)

Spec == Init /\ [][Next]_vars

NextConc ==
    \/ \E p \in Procs, lib_id \in LibIds, version \in ConcVersions,
          platforms \in ConcPlatformLists :
            CallConc(p, lib_id, version, platforms, FALSE)
    \/ \E p \in Procs : Step(p)

SpecConc == Init /\ [][NextConc]_vars


(***************************************************************************)
(* Properties                                                              *)
(***************************************************************************)

\* the call of f repeats the call before it, and that call pushed
RepeatsPublished(f) ==
    /\ f.pc # "idle"
    /\ f.prev.pushed
    /\ f.prev.lib_id = f.lib_id
    /\ f.prev.version = f.version

CommitsOf(rem, branch) == IF branch \in DOMAIN rem THEN rem[branch].n ELSE 0

\* the file .travis.yml of the checkout of f
TravisText(f) == fs[f.repo_directory].files[TRAVIS_FILENAME]

\* the board flags of the rendered config: its last line after the command
RenderedBoards(text) == SubSeq(text[Len(text)], 2, Len(text[Len(text)]))

\* the env block of the rendered config
RenderedEnvs(text) ==
    SubSeq(text, Len(TEMPLATE_HEAD) + 1, Len(text) - Len(TEMPLATE_INSTALL) - 2)

\* C1: a call that repeats the library id and version of the call before it,
\* which pushed, with force not set, clones and checks the version and then
\* stops: it takes no fallback, does not rewrite _version.json, makes no commit
\* and no push, and leaves the remote as it was.
C1_RepeatedPublishIsSkipped ==
    \A p \in SeqProcs :
        LET f == frame[p] IN
        (RepeatsPublished(f) /\ ~f.force) =>
            /\ f.done \subseteq {"clone", "chdir", "version_check"}
            /\ ~f.fallback
            /\ remote = f.remote0
            /\ (f.pc = "returned" /\ f.exc = "none") =>
                   (f.skipped /\ {"clone", "version_check"} \subseteq f.done)

C1_Witness ==
    \E p \in SeqProcs :
        /\ RepeatsPublished(frame[p]) /\ ~frame[p].force
        /\ frame[p].pc = "returned" /\ frame[p].skipped

\* C2: when a call has returned (after a push, a skip, or an error logged at
\* any step of the body), its temporary checkout directory no longer exists
\* and the working directory is the one the call started in.
C2_CleanupGuarantee ==
    \A p \in SeqProcs :
        LET f == frame[p] IN
        f.pc = "returned" =>
            /\ f.repo_directory \notin DOMAIN fs
            /\ cwd = f.original_working_directory

C2_Witness ==
    \E p \in SeqProcs :
        /\ frame[p].pc = "returned"
        /\ frame[p].exc = "copy_examples"
        /\ frame[p].repo_directory \notin DOMAIN fs
        /\ cwd = frame[p].original_working_directory

\* C3 as claimed: no failure of any step, the creation of the temporary
\* directory and the cleanup included, leaves the function.
C3_NoFailureEscapes ==
    \A p \in SeqProcs : frame[p].pc # "raised"

\* C3 as amended: a failure of a step of the try block (clone, orphan branch,
\* chdir, version check, staging, CI config, commit, push) is logged and never
\* leaves the function; only a failure of getcwd or mkdtemp before the try
\* block, or of the cleanup in the finally block, leaves it.
C3_BodyFailuresAreLogged ==
    \A p \in SeqProcs :
        LET f == frame[p] IN
        /\ f.escaped \in {"none", "getcwd", "mkdtemp", "finally_chdir",
                          "finally_rmtree"}
        /\ (f.pc = "raised") = (f.escaped # "none")
        /\ (f.exc # "none" /\ f.pc # "except") => f.logged
        /\ (f.exc # "none" /\ f.pc = "raised") =>
               f.escaped \in {"finally_chdir", "finally_rmtree"}

C3_Witness ==
    \E p \in SeqProcs :
        /\ frame[p].exc = "push"
        /\ frame[p].logged
        /\ frame[p].pc = "returned"

\* C4 as claimed: a publish that took the orphan-branch fallback and pushed
\* leaves a branch of one commit holding exactly _version.json, .travis.yml
\* and the example files, and no file of master.
C4_OrphanBranchHoldsOnlyPublishedFiles ==
    \A p \in SeqProcs :
        LET f == frame[p] IN
        (f.fallback /\ "push" \in f.done) =>
            /\ f.branch_name \in DOMAIN remote
            /\ remote[f.branch_name].n = 1
            /\ DOMAIN remote[f.branch_name].tree = AddedPaths(f)

\* C5 as claimed: after a publish that pushed, the examples directory of the
\* published branch holds exactly the example files this publish copied.
C5_ExamplesFullyReplaced ==
    \A p \in SeqProcs :
        LET f == frame[p] IN
        "push" \in f.done =>
            {q \in DOMAIN remote[f.branch_name].tree : q[1] = examples_directory[1]}
                = Range(f.example_files)

\* C6: a call with force set that repeats the library id and version of the
\* call before it is never skipped, and when it returns without an error it
\* has made a commit and pushed it: the branch has one commit more.
C6_ForcedRepeatPublishes ==
    \A p \in SeqProcs :
        LET f == frame[p] IN
        (RepeatsPublished(f) /\ f.force) =>
            /\ ~f.skipped
            /\ (f.pc = "returned" /\ f.exc = "none") =>
                   /\ {"commit", "push"} \subseteq f.done
                   /\ CommitsOf(remote, f.branch_name)
                        = CommitsOf(f.remote0, f.branch_name) + 1
                   /\ remote[f.branch_name].tree[VERSION_FILENAME] = dump(f.version)

C6_Witness ==
    \E p \in SeqProcs :
        /\ RepeatsPublished(frame[p]) /\ frame[p].force
        /\ frame[p].pc = "returned" /\ "push" \in frame[p].done

\* C7 as claimed: the rendered board list comes from the registry when the
\* registry answers, and from the static table only when it does not.
C7_RegistryPreferred ==
    \A p \in SeqProcs :
        LET f == frame[p] IN
        f.pc = "index_add" =>
            RenderedBoards(TravisText(f)) =
                BoardFlags(IF registry.available
                           THEN get_all_boards_by_platforms(registry.boards, f.platforms)
                           ELSE get_boards_by_platforms(f.platforms))

\* C7 as amended: the rendered board list always comes from the static
\* platform-to-boards table, whether or not the registry answers.
C7_StaticTableAlways ==
    \A p \in SeqProcs :
        LET f == frame[p] IN
        f.pc = "index_add" =>
            RenderedBoards(TravisText(f)) =
                BoardFlags(get_boards_by_platforms(f.platforms))

C7_Witness ==
    \E p \in SeqProcs :
        /\ frame[p].pc = "index_add"
        /\ registry.available
        /\ get_all_boards_by_platforms(registry.boards, frame[p].platforms)
             # get_boards_by_platforms(frame[p].platforms)
        /\ RenderedBoards(TravisText(frame[p]))
             = BoardFlags(get_boards_by_platforms(frame[p].platforms))

\* the static table, written out
TableBoards(platform) ==
    CASE platform = "atmelavr" -> <<"uno", "leonardo", "megaatmega2560">>
      [] platform = "teensy" -> <<"teensy20", "teensy31">>
      [] OTHER -> <<>>

\* the board names of a flag line: the tokens that follow a "--board="
FlagNames(flags) ==
    LET at == {i \in DOMAIN flags : flags[i] = "--board="}
        nth[k \in 0..Cardinality(at)] ==
            IF k = 0 THEN 0 ELSE CHOOSE i \in at : i > nth[k - 1]
                                    /\ \A j \in at : j > nth[k - 1] => i <= j
    IN [k \in 1..Cardinality(at) |-> flags[nth[k] + 1]]

\* where the boards of the i-th platform start in the expected list
Offset(platforms, i) ==
    LET sum[k \in 0..Len(platforms)] ==
            IF k = 0 THEN 0 ELSE sum[k - 1] + Len(TableBoards(platforms[k]))
    IN sum[i - 1]

\* C8: the rendered config carries one --board= flag per board of each
\* requested platform, in platform order and then table order, flags
\* separated by one space, nothing for a platform the table lacks (for
\* ["atmelavr"]: uno, leonardo, megaatmega2560), and its env block carries one
\* PLATFORMIO_CI_SRC=examples/<name> line per example file of the library.
C8_RenderedFlagsAndEnvs ==
    \A p \in SeqProcs :
        LET f == frame[p] IN
        f.pc = "index_add" =>
            LET flags == RenderedBoards(TravisText(f))
                names == FlagNames(flags)
                envs == RenderedEnvs(TravisText(f))
                total == Offset(f.platforms, Len(f.platforms) + 1)
            IN /\ Len(names) = total
               /\ Len(flags) = IF total = 0 THEN 0 ELSE 3 * total - 1
               /\ \A i \in DOMAIN f.platforms :
                    \A j \in DOMAIN TableBoards(f.platforms[i]) :
                        names[Offset(f.platforms, i) + j]
                            = TableBoards(f.platforms[i])[j]
               /\ f.platforms = <<"atmelavr">> =>
                    flags = <<"--board=", "uno", " ", "--board=", "leonardo", " ",
                              "--board=", "megaatmega2560">>
               /\ Len(envs) = Cardinality(libExamples[f.lib_id])
               /\ Range(envs) =
                    {<<"    - PLATFORMIO_CI_SRC=", "examples", "/", n>> :
                        n \in libExamples[f.lib_id]}

C8_Witness ==
    \E p \in SeqProcs :
        /\ frame[p].pc = "index_add"
        /\ frame[p].platforms = <<"espressif", "teensy">>
        /\ Cardinality(libExamples[frame[p].lib_id]) = 2
        /\ FlagNames(RenderedBoards(TravisText(frame[p]))) = <<"teensy20", "teensy31">>

\* C9 as claimed: of two concurrent publishes for different libraries, each
\* writes only into its own temporary checkout, and what it pushed to its
\* branch is its own library's examples and CI config.
C9_ConcurrentPublishesAreIsolated ==
    \A p \in Procs :
        LET f == frame[p] IN
        /\ f.written \subseteq {f.repo_directory}
        /\ "push" \in f.done =>
            LET tree == remote[f.branch_name].tree IN
            /\ \A q \in Range(f.example_files) : tree[q] = Sketch(f.lib_id, q[2])
            /\ tree[TRAVIS_FILENAME] =
                 TravisConfig(EnvLines(f.example_files),
                              BoardFlags(get_boards_by_platforms(f.platforms)),
                              f.version.name, f.lib_id)

BodySteps ==
    {"clone", "checkout_orphan", "chdir", "version_check", "write_version",
     "clear_examples", "copy_examples", "write_travis", "index_add", "commit"}

\* C10: a push happens only after the clone, the chdir, the version check,
\* the version-marker write, the example staging, the CI-config write, the
\* index update and the commit; when any of them fails there is no push and
\* the remote stays as it was at the start of the call; and the orphan-branch
\* fallback is taken only when the branch did not exist on the remote.
C10_PushIsLastAndOnlyAfterSuccess ==
    \A p \in SeqProcs :
        LET f == frame[p] IN
        /\ "push" \in f.done =>
             (BodySteps \ {"checkout_orphan"}) \subseteq f.done
        /\ "push" \notin f.done => remote = f.remote0
        /\ f.exc \in BodySteps => ("push" \notin f.done /\ remote = f.remote0)
        /\ f.fallback => f.branch_name \notin DOMAIN f.remote0
        /\ "push" \in f.done => f.pc \in {"finally_chdir", "finally_rmtree",
                                          "returned", "raised"}

C10_Witness ==
    \E p \in SeqProcs :
        /\ frame[p].exc = "clone"
        /\ frame[p].pc = "returned"
        /\ frame[p].branch_name \in DOMAIN frame[p].remote0
        /\ ~frame[p].fallback
        /\ remote = frame[p].remote0

====
